---- MODULE Spec2Model ----
(***************************************************************************)
(* HashOrderBook (src/HashOrderBook.hpp): a price-level container with a   *)
(* mid-anchored ring of buckets.  Each bucket owns a first slot, an array  *)
(* of collision slots and an overflow list.  The model follows the         *)
(* instantiation of src/Tests.hpp: Key = Value = size_t, tick_size = 1,    *)
(* fast_book_size = 10, collision_buckets = 2, anchor 110, rehash to 120.  *)
(***************************************************************************)
EXTENDS Integers, Sequences, FiniteSets, TLC

VARIABLES
    buckets,            \* _buckets: the ring of collision_bucket
    hashing_mid_price,  \* _hashing_mid_price
    current_mid_index,  \* _current_mid_index
    size,               \* _size
    best_bid,           \* _best_bid   (std::optional: <<>> or <<key>>)
    best_offer,         \* _best_offer (std::optional: <<>> or <<key>>)
    last,               \* the last public call: [op, side, key, val]
    ret,                \* what that call returned or threw
    out,                \* the caller's variable for the out parameters:
                        \* find's value (kept when find does not assign
                        \* it), hash_key's <<hash, collision_bucket>>, 0
                        \* once a call without out parameters was made
    net                 \* successful inserts minus successful erases

vars == <<buckets, hashing_mid_price, current_mid_index, size, best_bid,
          best_offer, last, ret, out, net>>

book == <<buckets, hashing_mid_price, current_mid_index, size, best_bid,
          best_offer>>

----------------------------------------------------------------------------
(* Template parameters and the inputs the operations are driven with.      *)

tick_size == 1
fast_book_size == 10
collision_buckets == 2
mid_price == 110

\* Key is size_t: subtraction wraps modulo 2^64 before the division by
\* tick_size and the conversion to long.  The modulus is scaled down to 2^16
\* (the checker's integers are 32 bits wide); keys stay far below it.
KeyBits == 16
KeyMod == 2 ^ KeyBits

MaxEntries == 2

\* hash_key is driven with every key from Reach ticks below the lowest
\* anchor to Reach ticks above the highest
Reach == 30

BID == "BID"
ASK == "ASK"
Sides == {BID, ASK}

\* Prices that reach, under the anchors 110 and 120, the first slot, both
\* collision slots, the overflow list through a large collision index and
\* the overflow list through the side-aware wrap rejection.
Keys == {95, 105, 110, 115, 125, 135}
Values == {1, 2}
Anchors == {mid_price, mid_price + (fast_book_size \div tick_size)}

HashKeys == (mid_price - Reach) .. (mid_price + fast_book_size + Reach)

Indexes == 0 .. (fast_book_size - 1)

----------------------------------------------------------------------------
(* Cells, slots and buckets.                                               *)

\* std::optional<std::pair<Key, Value>>: <<>> when empty, <<key, value>>
Empty == <<>>
has_value(cell) == cell # Empty
Cell(key, value) == <<key, value>>

\* bid_ask_node
bid_ask_node == [bid_value |-> Empty, ask_value |-> Empty]

side_value(node, side) == IF side = BID THEN node.bid_value ELSE node.ask_value

\* set_side_value that also resets the cell of the other side
set_side_value_clears_other(node, side, cell) ==
    IF side = BID THEN [node EXCEPT !.bid_value = cell, !.ask_value = Empty]
                  ELSE [node EXCEPT !.ask_value = cell, !.bid_value = Empty]

set_side_value(node, side, cell) ==
    IF side = BID THEN [node EXCEPT !.bid_value = cell]
                  ELSE [node EXCEPT !.ask_value = cell]

\* bid_ask_collision_node(key, value, side, collision_index)
bid_ask_collision_node(key, value, side, collision_index) ==
    [bid_value |-> IF side = BID THEN Cell(key, value) ELSE Empty,
     ask_value |-> IF side = ASK THEN Cell(key, value) ELSE Empty,
     collision_index |-> collision_index]

\* collision_bucket(): first_node, nodes (array of collision_buckets slots,
\* indexed here from 1), overflow_bucket (forward_list, front first)
collision_bucket ==
    [first_node |-> bid_ask_node,
     nodes |-> [i \in 1 .. collision_buckets |-> bid_ask_node],
     overflow_bucket |-> <<>>]

\* a bucket_type with every bucket blank
empty_buckets == [i \in Indexes |-> collision_bucket]

----------------------------------------------------------------------------
(* Address arithmetic.                                                     *)

\* C++ x % mod on long: the remainder has the sign of x
CRem(x, mod) == IF x >= 0 THEN x % mod ELSE 0 - ((0 - x) % mod)

\* _positiveMod without the step that lifts a negative remainder
positiveMod_keeps_sign(x, mod) == CRem(x, mod)

positiveMod(x, mod) ==
    LET result == CRem(x, mod)
    IN  IF result < 0 THEN result + mod ELSE result

abs(x) == IF x < 0 THEN 0 - x ELSE x

calc_collision_bucket(index, sz) ==
    IF index >= 0 THEN index \div sz
                  ELSE (abs(index + 1) \div sz) + 1

\* (key - hashing_mid_price) / tick in Key (an unsigned integer of KeyBits
\* bits), then converted to long
offset_in_ticks_of(key, hmp, tick) ==
    LET udiff == (key - hmp) % KeyMod
        uquot == udiff \div tick
    IN  IF uquot >= KeyMod \div 2 THEN uquot - KeyMod ELSE uquot

\* const long offset_in_ticks = (key - hashing_mid_price) / tick_size
offset_in_ticks(key, hmp) == offset_in_ticks_of(key, hmp, tick_size)

raw_index(key, hmp) == (fast_book_size \div 2) + offset_in_ticks(key, hmp)

\* _hash_key without the side-aware wrap rejection
wrap_rejected_never(side, index) == FALSE

\* the side-aware wrap rejection of _hash_key
wrap_rejected(side, index) ==
    \/ (side = BID /\ index > fast_book_size)
    \/ (side = ASK /\ index < 0)

\* _hash_key returning collision_bucket <= collision_buckets
hash_key_at_flags_last_slot(side, key, hmp) ==
    LET index == raw_index(key, hmp)
        hash == positiveMod(index, fast_book_size)
    IN  IF wrap_rejected(side, index)
        THEN [hash |-> hash, collision_bucket |-> collision_buckets + 1,
              ok |-> FALSE]
        ELSE LET cb == calc_collision_bucket(index, fast_book_size)
             IN  [hash |-> hash, collision_bucket |-> cb,
                  ok |-> (cb <= collision_buckets)]

\* _hash_key: [hash, collision_bucket, ok]
hash_key_at(side, key, hmp) ==
    LET index == raw_index(key, hmp)
        hash == positiveMod(index, fast_book_size)
    IN  IF wrap_rejected(side, index)
        THEN [hash |-> hash, collision_bucket |-> collision_buckets + 1,
              ok |-> FALSE]
        ELSE LET cb == calc_collision_bucket(index, fast_book_size)
             IN  [hash |-> hash, collision_bucket |-> cb,
                  ok |-> (cb < collision_buckets)]

\* tier_of without the collision slots: every collision goes to the list
tier_of_no_collision_slots(cb) ==
    IF cb = 0 THEN "first_node" ELSE "overflow_bucket"

\* tier_of with the collision slots ending one collision index early
tier_of_one_slot_short(cb) ==
    IF cb = 0 THEN "first_node"
    ELSE IF cb - 1 < collision_buckets - 1 THEN "nodes"
    ELSE "overflow_bucket"

\* the branch insert, find and erase take on collision_bucket
tier_of(cb) ==
    IF cb = 0 THEN "first_node"
    ELSE IF cb - 1 < collision_buckets THEN "nodes"
    ELSE "overflow_bucket"

----------------------------------------------------------------------------
(* The overflow list.                                                      *)

\* _find_node: the position of the first node whose cell of this side holds
\* this key, 0 for nullptr
RECURSIVE find_node_from(_, _, _, _)
find_node_from(side, key, overflow_bucket, i) ==
    IF i > Len(overflow_bucket) THEN 0
    ELSE LET cell == side_value(overflow_bucket[i], side)
         IN  IF has_value(cell) /\ cell[1] = key THEN i
             ELSE find_node_from(side, key, overflow_bucket, i + 1)

find_node(side, key, overflow_bucket) ==
    find_node_from(side, key, overflow_bucket, 1)

\* remove_at that also drops the nodes behind the one removed
remove_at_and_behind(seq, i) == SubSeq(seq, 1, i - 1)

remove_at(seq, i) == SubSeq(seq, 1, i - 1) \o SubSeq(seq, i + 1, Len(seq))

\* both_empty that never sees a node as empty: no node is ever unlinked
both_empty_never(node) == FALSE

both_empty(node) == ~has_value(node.bid_value) /\ ~has_value(node.ask_value)

\* whether the cell of this side of a node holds this key
holds_key(node, side, key) ==
    has_value(side_value(node, side)) /\ side_value(node, side)[1] = key

\* _erase_node: walks the list from position i.  The first node whose cell
\* holds the key has that cell reset and the walk returns; a visited node
\* whose two cells are empty is unlinked.  [list, found]
RECURSIVE erase_node_from(_, _, _, _)
erase_node_from(side, key, overflow_bucket, i) ==
    IF i > Len(overflow_bucket)
    THEN [list |-> overflow_bucket, found |-> FALSE]
    ELSE IF holds_key(overflow_bucket[i], side, key)
    THEN [list |-> IF both_empty(set_side_value(overflow_bucket[i], side,
                                               Empty))
                   THEN remove_at(overflow_bucket, i)
                   ELSE [overflow_bucket EXCEPT
                            ![i] = set_side_value(@, side, Empty)],
          found |-> TRUE]
    ELSE IF both_empty(overflow_bucket[i])
    THEN erase_node_from(side, key, remove_at(overflow_bucket, i), i)
    ELSE erase_node_from(side, key, overflow_bucket, i + 1)

erase_node(side, key, overflow_bucket) ==
    erase_node_from(side, key, overflow_bucket, 1)

----------------------------------------------------------------------------
(* Best bid, best offer and the mid index.                                 *)

\* key > _best_bid with a std::optional on the right: an empty optional
\* compares below every value
key_gt_optional(key, opt) == IF has_value(opt) THEN key > opt[1] ELSE TRUE

\* key < _best_offer with a std::optional on the right: an empty optional
\* compares below every value, so nothing is less than it
key_lt_optional(key, opt) == IF has_value(opt) THEN key < opt[1] ELSE FALSE

BBO(bb, bo, cmi, thrown) ==
    [best_bid |-> bb, best_offer |-> bo, current_mid_index |-> cmi,
     thrown |-> thrown]

\* update_mid that leaves the mid index alone when only one best is set
update_mid_both_only(bb, bo, cmi, bid_change, offer_change, h_mid, h_bid, h_offer) ==
    IF has_value(bb) /\ has_value(bo) /\ (bid_change \/ offer_change)
    THEN IF h_mid.collision_bucket > 0
         THEN BBO(bb, bo, cmi, TRUE)
         ELSE BBO(bb, bo, h_mid.hash, FALSE)
    ELSE BBO(bb, bo, cmi, FALSE)

\* the second half of _update_bbo_and_mid: bb and bo are the bests after the
\* first half, h_mid the address of their mid, h_bid and h_offer the
\* addresses of the bests, all against the book's own anchor
update_mid(bb, bo, cmi, bid_change, offer_change, h_mid, h_bid, h_offer) ==
    IF has_value(bb) /\ has_value(bo) /\ (bid_change \/ offer_change)
    THEN IF h_mid.collision_bucket > 0
         THEN BBO(bb, bo, cmi, TRUE)
         ELSE BBO(bb, bo, h_mid.hash, FALSE)
    ELSE IF bid_change /\ has_value(bb) THEN BBO(bb, bo, h_bid.hash, FALSE)
    ELSE IF offer_change /\ has_value(bo) THEN BBO(bb, bo, h_offer.hash, FALSE)
    ELSE BBO(bb, bo, cmi, FALSE)

\* the first half of _update_bbo_and_mid decided, the second half applied
update_bests(side, bb, bo, cmi, this_hmp, bid_change, offer_change) ==
    update_mid(bb, bo, cmi, bid_change, offer_change,
               hash_key_at(side,
                           IF has_value(bb) /\ has_value(bo)
                           THEN (bb[1] + bo[1]) \div 2 ELSE 0,
                           this_hmp),
               hash_key_at(side, IF has_value(bb) THEN bb[1] ELSE 0, this_hmp),
               hash_key_at(side, IF has_value(bo) THEN bo[1] ELSE 0, this_hmp))

\* _update_bbo_and_mid(side, key) on the bests bb and bo and the mid index
\* cmi, addressing against the book's own anchor this_hmp
update_bbo_and_mid(side, key, bb, bo, cmi, this_hmp) ==
    IF side = BID /\ key_gt_optional(key, bb)
    THEN update_bests(side, <<key>>, bo, cmi, this_hmp, TRUE, FALSE)
    ELSE IF side = ASK /\ key_lt_optional(key, bo)
    THEN update_bests(side, bb, <<key>>, cmi, this_hmp, FALSE, TRUE)
    ELSE update_bests(side, bb, bo, cmi, this_hmp, FALSE, FALSE)

----------------------------------------------------------------------------
(* Insert.                                                                 *)

\* the book's scalar members that _insert reads and writes
Scalars(sz, bb, bo, cmi, this_hmp) ==
    [size |-> sz, best_bid |-> bb, best_offer |-> bo,
     current_mid_index |-> cmi, this_hmp |-> this_hmp]

InsertResult(bkts, m, r) == [buckets |-> bkts, m |-> m, ret |-> r]

\* the slot of a bucket: 0 is first_node, i >= 1 is nodes[i - 1] of the code
slot_of(bucket, slot) ==
    IF slot = 0 THEN bucket.first_node ELSE bucket.nodes[slot]

write_slot(bkts, hash, slot, side, cell) ==
    IF slot = 0
    THEN [bkts EXCEPT ![hash].first_node = set_side_value(@, side, cell)]
    ELSE [bkts EXCEPT ![hash].nodes[slot] = set_side_value(@, side, cell)]

\* after the cell is written: the BBO update u, then ++_size
insert_commit(u, new_bkts, m) ==
    IF u.thrown
    THEN InsertResult(new_bkts,
                      [m EXCEPT !.best_bid = u.best_bid,
                                !.best_offer = u.best_offer,
                                !.current_mid_index = u.current_mid_index],
                      "throw_massive_mid_move")
    ELSE InsertResult(new_bkts,
                      [m EXCEPT !.best_bid = u.best_bid,
                                !.best_offer = u.best_offer,
                                !.current_mid_index = u.current_mid_index,
                                !.size = m.size + 1],
                      "true")

\* insert_write without the check that the cell is empty
insert_write_overwrites(side, key, value, bkts, hash, slot, m) ==
    insert_commit(
        update_bbo_and_mid(side, key, m.best_bid, m.best_offer,
                           m.current_mid_index, m.this_hmp),
        write_slot(bkts, hash, slot, side, Cell(key, value)), m)

\* _insert into the first slot (slot 0) or a collision slot: an occupied
\* cell fails, an empty one is written
insert_write(side, key, value, bkts, hash, slot, m) ==
    IF has_value(side_value(slot_of(bkts[hash], slot), side))
    THEN InsertResult(bkts, m, "false")
    ELSE insert_commit(
             update_bbo_and_mid(side, key, m.best_bid, m.best_offer,
                                m.current_mid_index, m.this_hmp),
             write_slot(bkts, hash, slot, side, Cell(key, value)), m)

\* insert_overflow that prepends a node whatever _find_node returned
insert_overflow_always_prepends(side, key, value, bkts, hash, cb, m, n) ==
    InsertResult(
        [bkts EXCEPT ![hash].overflow_bucket =
             <<bid_ask_collision_node(key, value, side, cb)>> \o @],
        [m EXCEPT !.size = m.size + 1], "true")

\* the overflow branch of _insert; n is what _find_node returned
insert_overflow(side, key, value, bkts, hash, cb, m, n) ==
    IF n = 0
    THEN InsertResult(
             [bkts EXCEPT ![hash].overflow_bucket =
                  <<bid_ask_collision_node(key, value, side, cb)>> \o @],
             [m EXCEPT !.size = m.size + 1], "true")
    ELSE IF has_value(side_value(bkts[hash].overflow_bucket[n], side))
    THEN InsertResult(bkts, m, "false")
    ELSE InsertResult(bkts, m, "throw_bad_optional_access")

\* _insert once the address h is computed
insert_at(h, side, key, value, bkts, m) ==
    IF tier_of(h.collision_bucket) = "overflow_bucket"
    THEN insert_overflow(side, key, value, bkts, h.hash, h.collision_bucket,
                         m, find_node(side, key, bkts[h.hash].overflow_bucket))
    ELSE insert_write(side, key, value, bkts, h.hash, h.collision_bucket, m)

\* _insert(side, key, value, buckets, hashing_mid_price)
insert_into(side, key, value, bkts, hmp, m) ==
    insert_at(hash_key_at(side, key, hmp), side, key, value, bkts, m)

Throws == {"throw_key_mismatch", "throw_massive_mid_move",
           "throw_reinsert_failed", "throw_bad_optional_access"}

\* a call that does not come back: a loop that never ends, or undefined
\* behaviour, after which nothing is known of the program
Stuck == {"never_returns", "undefined_behaviour"}

\* an exception no caller in the repository catches ends the program
Running == ret \notin Throws /\ ret \notin Stuck

Call(op, side, key, val) == [op |-> op, side |-> side, key |-> key, val |-> val]

\* insert(side, key, value)
\* (the book is kept to MaxEntries entries: a full book takes the inserts
\* that do not return true)
Insert(side, key, value) ==
    /\ Running
    /\ \E r \in {insert_into(side, key, value, buckets, hashing_mid_price,
                            Scalars(size, best_bid, best_offer,
                                    current_mid_index, hashing_mid_price))} :
           /\ size < MaxEntries \/ r.ret # "true"
           /\ buckets' = r.buckets
           /\ size' = r.m.size
           /\ best_bid' = r.m.best_bid
           /\ best_offer' = r.m.best_offer
           /\ current_mid_index' = r.m.current_mid_index
           /\ ret' = r.ret
           /\ net' = IF r.ret = "true" THEN net + 1 ELSE net
    /\ last' = Call("insert", side, key, value)
    /\ out' = 0
    /\ UNCHANGED hashing_mid_price

----------------------------------------------------------------------------
(* Find and erase.                                                         *)

FindResult(r, o) == [ret |-> r, out |-> o]

\* the tail of find: read the cell of the node that was located
find_read(cell, key) ==
    IF has_value(cell)
    THEN IF key # cell[1] THEN FindResult("throw_key_mismatch", 0)
         ELSE FindResult("true", cell[2])
    ELSE FindResult("false", 0)

\* find once the address h is computed; n is what _find_node returned
find_at(h, side, key, bkts, n) ==
    IF tier_of(h.collision_bucket) = "overflow_bucket"
    THEN IF n = 0 THEN FindResult("false", 0)
         ELSE find_read(side_value(bkts[h.hash].overflow_bucket[n], side), key)
    ELSE find_read(side_value(slot_of(bkts[h.hash], h.collision_bucket), side),
                   key)

\* find(side, key, value): [ret, out]; out is what the call assigns to the
\* caller's variable when it returns true (no other path assigns it)
find_in(side, key, bkts, hmp) ==
    find_at(hash_key_at(side, key, hmp), side, key, bkts,
            find_node(side, key,
                      bkts[hash_key_at(side, key, hmp).hash].overflow_bucket))

\* find that writes the caller's variable on every path
Find_assigns_on_miss(side, key) ==
    /\ Running
    /\ \E r \in {find_in(side, key, buckets, hashing_mid_price)} :
           /\ ret' = r.ret
           /\ out' = r.out
    /\ last' = Call("find", side, key, 0)
    /\ UNCHANGED <<book, net>>

Find(side, key) ==
    /\ Running
    /\ \E r \in {find_in(side, key, buckets, hashing_mid_price)} :
           /\ ret' = r.ret
           /\ out' = IF r.ret = "true" THEN r.out ELSE out
    /\ last' = Call("find", side, key, 0)
    /\ UNCHANGED <<book, net>>

EraseResult(bkts, sz, r) == [buckets |-> bkts, size |-> sz, ret |-> r]

\* erase_reset without --_size
erase_reset_keeps_size(cell, side, key, bkts, hash, slot, sz) ==
    IF has_value(cell)
    THEN IF key # cell[1] THEN EraseResult(bkts, sz, "throw_key_mismatch")
         ELSE EraseResult(write_slot(bkts, hash, slot, side, Empty), sz,
                          "true")
    ELSE EraseResult(bkts, sz, "false")

\* the tail of erase: reset the cell of the first slot or collision slot
erase_reset(cell, side, key, bkts, hash, slot, sz) ==
    IF has_value(cell)
    THEN IF key # cell[1] THEN EraseResult(bkts, sz, "throw_key_mismatch")
         ELSE EraseResult(write_slot(bkts, hash, slot, side, Empty), sz - 1,
                          "true")
    ELSE EraseResult(bkts, sz, "false")

\* erase once the address h is computed; e is what _erase_node did
erase_at(h, side, key, bkts, sz, e) ==
    IF tier_of(h.collision_bucket) = "overflow_bucket"
    THEN EraseResult([bkts EXCEPT ![h.hash].overflow_bucket = e.list],
                     IF e.found THEN sz - 1 ELSE sz,
                     IF e.found THEN "true" ELSE "false")
    ELSE erase_reset(side_value(slot_of(bkts[h.hash], h.collision_bucket),
                                side),
                     side, key, bkts, h.hash, h.collision_bucket, sz)

\* erase(side, key): [buckets, size, ret]
erase_in(side, key, bkts, hmp, sz) ==
    erase_at(hash_key_at(side, key, hmp), side, key, bkts, sz,
             erase_node(side, key,
                        bkts[hash_key_at(side, key, hmp).hash].overflow_bucket))

\* erase that unsets best_bid when the key erased is the best bid
Erase_unsets_best_bid(side, key) ==
    /\ Running
    /\ \E r \in {erase_in(side, key, buckets, hashing_mid_price, size)} :
           /\ buckets' = r.buckets
           /\ size' = r.size
           /\ ret' = r.ret
           /\ net' = IF r.ret = "true" THEN net - 1 ELSE net
           /\ best_bid' = IF r.ret = "true" /\ side = BID /\ best_bid = <<key>>
                          THEN <<>> ELSE best_bid
    /\ last' = Call("erase", side, key, 0)
    /\ out' = 0
    /\ UNCHANGED <<hashing_mid_price, current_mid_index, best_offer>>

\* erase(side, key)
Erase(side, key) ==
    /\ Running
    /\ \E r \in {erase_in(side, key, buckets, hashing_mid_price, size)} :
           /\ buckets' = r.buckets
           /\ size' = r.size
           /\ ret' = r.ret
           /\ net' = IF r.ret = "true" THEN net - 1 ELSE net
    /\ last' = Call("erase", side, key, 0)
    /\ out' = 0
    /\ UNCHANGED <<hashing_mid_price, current_mid_index, best_bid, best_offer>>

----------------------------------------------------------------------------
(* Rehash and clear.                                                       *)

\* the occupied cells of one slot in the order rehash visits them
node_entries(node) ==
    (IF has_value(node.bid_value)
     THEN <<<<BID, node.bid_value[1], node.bid_value[2]>>>> ELSE <<>>)
    \o
    (IF has_value(node.ask_value)
     THEN <<<<ASK, node.ask_value[1], node.ask_value[2]>>>> ELSE <<>>)

RECURSIVE seq_entries(_, _)
seq_entries(nodes, i) ==
    IF i > Len(nodes) THEN <<>>
    ELSE node_entries(nodes[i]) \o seq_entries(nodes, i + 1)

bucket_entries(bucket) ==
    node_entries(bucket.first_node)
    \o seq_entries(bucket.nodes, 1)
    \o seq_entries(bucket.overflow_bucket, 1)

\* every occupied cell from bucket i on, in the order rehash visits them
RECURSIVE entries_from(_, _)
entries_from(bkts, i) ==
    IF i >= fast_book_size THEN <<>>
    ELSE bucket_entries(bkts[i]) \o entries_from(bkts, i + 1)

\* the reinsert loop of rehash from entry i on: [buckets, m, ret]
RECURSIVE reinsert_from(_, _, _, _, _)
RECURSIVE reinsert_next(_, _, _, _)

\* r is what _insert returned for entry i
reinsert_next(r, entries, i, hmp) ==
    IF r.ret = "true" THEN reinsert_from(entries, i + 1, r.buckets, hmp, r.m)
    ELSE IF r.ret = "false"
    THEN InsertResult(r.buckets, r.m, "throw_reinsert_failed")
    ELSE r

reinsert_from(entries, i, new_buckets, hmp, m) ==
    IF i > Len(entries) THEN InsertResult(new_buckets, m, "void")
    ELSE reinsert_next(insert_into(entries[i][1], entries[i][2],
                                   entries[i][3], new_buckets, hmp, m),
                       entries, i, hmp)

\* rehash_result without _hashing_mid_price = hashing_mid_price
rehash_result_keeps_anchor(r, new_hmp, bkts, m) ==
    IF r.ret = "void"
    THEN [buckets |-> r.buckets, m |-> r.m,
          hashing_mid_price |-> m.this_hmp, ret |-> "void"]
    ELSE [buckets |-> bkts, m |-> r.m, hashing_mid_price |-> m.this_hmp,
          ret |-> r.ret]

\* the end of rehash: the new array and anchor move into place unless an
\* exception left _buckets and _hashing_mid_price as they were
rehash_result(r, new_hmp, bkts, m) ==
    IF r.ret = "void"
    THEN [buckets |-> r.buckets, m |-> r.m, hashing_mid_price |-> new_hmp,
          ret |-> "void"]
    ELSE [buckets |-> bkts, m |-> r.m, hashing_mid_price |-> m.this_hmp,
          ret |-> r.ret]

\* rehash_to without _size = 0
rehash_to_keeps_size(new_hmp, bkts, m) ==
    rehash_result(reinsert_from(entries_from(bkts, 0), 1, empty_buckets,
                                new_hmp, m),
                  new_hmp, bkts, m)

\* rehash(hashing_mid_price): [buckets, m, hashing_mid_price, ret]
rehash_to(new_hmp, bkts, m) ==
    rehash_result(reinsert_from(entries_from(bkts, 0), 1, empty_buckets,
                                new_hmp, [m EXCEPT !.size = 0]),
                  new_hmp, bkts, m)

Rehash(new_hmp) ==
    /\ Running
    /\ \E r \in {rehash_to(new_hmp, buckets,
                          Scalars(size, best_bid, best_offer,
                                  current_mid_index, hashing_mid_price))} :
           /\ buckets' = r.buckets
           /\ hashing_mid_price' = r.hashing_mid_price
           /\ size' = r.m.size
           /\ best_bid' = r.m.best_bid
           /\ best_offer' = r.m.best_offer
           /\ current_mid_index' = r.m.current_mid_index
           /\ ret' = r.ret
    /\ last' = Call("rehash", "NONE", new_hmp, 0)
    /\ out' = 0
    /\ UNCHANGED net

\* the loop body of clear() without overflow_bucket->clear()
clear_bucket_keeps_list(bucket) ==
    [first_node |-> bid_ask_node,
     nodes |-> [i \in 1 .. collision_buckets |-> bid_ask_node],
     overflow_bucket |-> bucket.overflow_bucket]

\* the loop body of clear(): every cell of the bucket reset, its list cleared
clear_bucket(bucket) ==
    [first_node |-> bid_ask_node,
     nodes |-> [i \in 1 .. collision_buckets |-> bid_ask_node],
     overflow_bucket |-> <<>>]

\* clear()
Clear ==
    /\ Running
    /\ buckets' = [i \in Indexes |-> clear_bucket(buckets[i])]
    /\ size' = 0
    /\ best_bid' = <<>>
    /\ best_offer' = <<>>
    /\ last' = Call("clear", "NONE", hashing_mid_price, 0)
    /\ ret' = "void"
    /\ out' = 0
    /\ net' = 0
    /\ UNCHANGED <<hashing_mid_price, current_mid_index>>

\* clear(new_mid_price)
ClearTo(new_mid_price) ==
    /\ Running
    /\ buckets' = [i \in Indexes |-> clear_bucket(buckets[i])]
    /\ size' = 0
    /\ best_bid' = <<>>
    /\ best_offer' = <<>>
    /\ hashing_mid_price' = new_mid_price
    /\ last' = Call("clear_to", "NONE", new_mid_price, 0)
    /\ ret' = "void"
    /\ out' = 0
    /\ net' = 0
    /\ UNCHANGED current_mid_index

Init ==
    /\ buckets = empty_buckets
    /\ hashing_mid_price = mid_price
    /\ current_mid_index = fast_book_size \div 2
    /\ size = 0
    /\ best_bid = <<>>
    /\ best_offer = <<>>
    /\ last = Call("construct", "NONE", mid_price, 0)
    /\ ret = "void"
    /\ out = 0
    /\ net = 0

Next ==
    \/ \E side \in Sides, key \in Keys, value \in Values :
           Insert(side, key, value)
    \/ \E side \in Sides, key \in Keys : Find(side, key)
    \/ \E side \in Sides, key \in Keys : Erase(side, key)
    \/ \E new_hmp \in Anchors : Rehash(new_hmp)
    \/ Clear
    \/ \E new_mid_price \in Anchors : ClearTo(new_mid_price)

Spec == Init /\ [][Next]_vars

\* insert, find and erase only, on a newly constructed book
NextInsertFindErase ==
    \/ \E side \in Sides, key \in Keys, value \in Values :
           Insert(side, key, value)
    \/ \E side \in Sides, key \in Keys : Find(side, key)
    \/ \E side \in Sides, key \in Keys : Erase(side, key)

SpecInsertFindErase == Init /\ [][NextInsertFindErase]_vars

\* inserts only, on a newly constructed book
NextInserts ==
    \E side \in Sides, key \in Keys, value \in Values : Insert(side, key, value)

SpecInserts == Init /\ [][NextInserts]_vars

\* bid inserts only, on a newly constructed book
NextBidInserts == \E key \in Keys, value \in Values : Insert(BID, key, value)

SpecBidInserts == Init /\ [][NextBidInserts]_vars

\* ask inserts only, on a newly constructed book
NextAskInserts == \E key \in Keys, value \in Values : Insert(ASK, key, value)

SpecAskInserts == Init /\ [][NextAskInserts]_vars

----------------------------------------------------------------------------
(* hash_key as a public call, on a book constructed with any anchor.       *)

\* hash_key(side, key, hash, collision_bucket)
HashKey(side, key) ==
    /\ Running
    /\ \E h \in {hash_key_at(side, key, hashing_mid_price)} :
           /\ ret' = IF h.ok THEN "true" ELSE "false"
           /\ out' = <<h.hash, h.collision_bucket>>
    /\ last' = Call("hash_key", side, key, 0)
    /\ UNCHANGED <<book, net>>

\* HashOrderBook(hashing_mid_price)
InitAt(anchor) ==
    /\ buckets = empty_buckets
    /\ hashing_mid_price = anchor
    /\ current_mid_index = fast_book_size \div 2
    /\ size = 0
    /\ best_bid = <<>>
    /\ best_offer = <<>>
    /\ last = Call("construct", "NONE", anchor, 0)
    /\ ret = "void"
    /\ out = 0
    /\ net = 0

InitHashKey == \E anchor \in Anchors : InitAt(anchor)

NextHashKey == \E side \in Sides, key \in HashKeys : HashKey(side, key)

SpecHashKey == InitHashKey /\ [][NextHashKey]_vars

----------------------------------------------------------------------------
(* The bid iterator, Xiterator<Side::BID>.  (Xiterator<Side::ASK> cannot   *)
(* be instantiated: its branch of _has_next_overflow_bucket names a member *)
(* buckets that the book does not have.)                                   *)

\* the members of an iterator; book is "this" or "nullptr"
Xiterator(index, cb, book_pointer, isEnd) ==
    [index |-> index, collision_bucket |-> cb, book |-> book_pointer,
     isEnd |-> isEnd]

\* Xiterator() = default, the value of _bid_End that bid_end() returns
bid_End == Xiterator(0, 0, "nullptr", TRUE)

\* _next_index: [index, collision_bucket] after one step from index
next_index(side, index) ==
    LET next == IF side = ASK THEN index + 1 ELSE index - 1
    IN  [index |-> positiveMod(next, fast_book_size),
         collision_bucket |-> calc_collision_bucket(next, fast_book_size)]

\* _has_next_overflow_bucket for bids: the walk starts at
\* rbegin() + (_index + fast_book_size), which is rend() for _index 0 and
\* lies beyond rend() otherwise
has_next_overflow_bucket(it) ==
    IF it.index = 0 THEN "false" ELSE "undefined_behaviour"

\* _has_next: "true", "false" or "undefined_behaviour"
has_next(it) ==
    IF it.book = "nullptr" THEN "false"
    ELSE IF next_index(BID, it.index).collision_bucket <= collision_buckets
    THEN "true"
    ELSE has_next_overflow_bucket(it)

\* the first list node with this collision_index, 0 for none
RECURSIVE node_with_index(_, _, _)
node_with_index(overflow_bucket, cb, i) ==
    IF i > Len(overflow_bucket) THEN 0
    ELSE IF overflow_bucket[i].collision_index = cb THEN i
    ELSE node_with_index(overflow_bucket, cb, i + 1)

\* _get_value_type: the node an iterator points at, bid_ask_node (both
\* cells empty) standing for nullptr
get_value_type(it, bkts) ==
    IF it.collision_bucket = 0 THEN bkts[it.index].first_node
    ELSE IF it.collision_bucket <= collision_buckets
    THEN bkts[it.index].nodes[it.collision_bucket]
    ELSE LET n == node_with_index(bkts[it.index].overflow_bucket,
                                  it.collision_bucket, 1)
         IN  IF n = 0 THEN bid_ask_node
             ELSE [bid_value |-> bkts[it.index].overflow_bucket[n].bid_value,
                   ask_value |-> bkts[it.index].overflow_bucket[n].ask_value]

\* _has_price: the node at the position has a bid or an ask
has_price(it, bkts) ==
    LET node == get_value_type(it, bkts)
    IN  has_value(node.bid_value) \/ has_value(node.ask_value)

\* what a call on an iterator comes to: the iterator and "returned",
\* "never_returns" or "undefined_behaviour"
Outcome(it, outcome) == [it |-> it, outcome |-> outcome]

\* the loop of operator++; visited holds the positions the loop has been at
\* without finding a price: nothing changes between two visits of one
\* position, so a second visit means the loop never ends
RECURSIVE increment_from(_, _, _)
increment_from(it, bkts, visited) ==
    IF has_next(it) = "undefined_behaviour"
    THEN Outcome(it, "undefined_behaviour")
    ELSE IF has_next(it) = "false"
    THEN Outcome([it EXCEPT !.isEnd = TRUE], "returned")
    ELSE LET n == next_index(BID, it.index)
             moved == [it EXCEPT !.index = n.index,
                                 !.collision_bucket = n.collision_bucket]
         IN  IF has_price(moved, bkts) THEN Outcome(moved, "returned")
             ELSE IF <<n.index, n.collision_bucket>> \in visited
             THEN Outcome(moved, "never_returns")
             ELSE increment_from(moved, bkts,
                                 visited \cup {<<n.index,
                                                 n.collision_bucket>>})

\* operator++
increment(it, bkts) ==
    IF it.book = "nullptr" THEN Outcome(it, "returned")
    ELSE increment_from(it, bkts, {})

\* Xiterator(index, collision_bucket, book): r is what operator++ came to
\* when the position given has no price
construct(it, bkts, r) ==
    IF has_price(it, bkts) THEN Outcome(it, "returned")
    ELSE IF has_next(it) = "undefined_behaviour"
    THEN Outcome(it, "undefined_behaviour")
    ELSE IF has_next(it) = "false"
    THEN Outcome([it EXCEPT !.isEnd = TRUE], "returned")
    ELSE r

\* bid_begin(); h is the address of _best_bid
bid_begin_at(h, bb, bkts) ==
    IF has_value(bb)
    THEN construct(Xiterator(h.hash, h.collision_bucket, "this", FALSE), bkts,
                   increment(Xiterator(h.hash, h.collision_bucket, "this",
                                       FALSE), bkts))
    ELSE Outcome(bid_End, "returned")

bid_begin(bb, bkts, hmp) ==
    bid_begin_at(hash_key_at(BID, IF has_value(bb) THEN bb[1] ELSE 0, hmp),
                 bb, bkts)

\* operator==
iterator_eq(lhs, rhs) ==
    IF lhs.book # rhs.book THEN FALSE
    ELSE IF lhs.isEnd = rhs.isEnd THEN TRUE
    ELSE lhs.index = rhs.index /\ lhs.collision_bucket = rhs.collision_bucket

\* operator!=
iterator_ne(lhs, rhs) ==
    IF lhs.book # rhs.book THEN TRUE
    ELSE IF lhs.isEnd # rhs.isEnd THEN TRUE
    ELSE lhs.index # rhs.index \/ lhs.collision_bucket # rhs.collision_bucket

\* the calls that leave the caller's two iterators a and b in out
IteratorOps == {"bid_begin", "increment", "operator==", "operator!="}

\* the caller's iterators: default-constructed until bid_begin assigns one
Iterators ==
    IF last.op \in IteratorOps THEN out ELSE [a |-> bid_End, b |-> bid_End]

IteratorNames == {"a", "b"}

\* what a call on an iterator leaves in ret
ReturnOf(outcome) == IF outcome = "returned" THEN "void" ELSE outcome

\* v = bid_begin()
BidBegin(v) ==
    /\ Running
    /\ \E r \in {bid_begin(best_bid, buckets, hashing_mid_price)} :
           /\ ret' = ReturnOf(r.outcome)
           /\ out' = IF r.outcome = "returned"
                     THEN [Iterators EXCEPT ![v] = r.it] ELSE Iterators
    /\ last' = Call("bid_begin", BID, 0, 0)
    /\ UNCHANGED <<book, net>>

\* ++v
Increment(v) ==
    /\ Running
    /\ last.op \in IteratorOps
    /\ \E r \in {increment(out[v], buckets)} :
           /\ ret' = ReturnOf(r.outcome)
           /\ out' = IF r.outcome = "returned"
                     THEN [out EXCEPT ![v] = r.it] ELSE out
    /\ last' = Call("increment", BID, 0, 0)
    /\ UNCHANGED <<book, net>>

\* a == b
Equal ==
    /\ Running
    /\ last.op \in IteratorOps
    /\ ret' = IF iterator_eq(out.a, out.b) THEN "true" ELSE "false"
    /\ last' = Call("operator==", BID, 0, 0)
    /\ UNCHANGED <<book, net, out>>

\* a != b
NotEqual ==
    /\ Running
    /\ last.op \in IteratorOps
    /\ ret' = IF iterator_ne(out.a, out.b) THEN "true" ELSE "false"
    /\ last' = Call("operator!=", BID, 0, 0)
    /\ UNCHANGED <<book, net, out>>

\* a book is filled, then iterated with one iterator
NextIterate ==
    \/ \E side \in Sides, key \in Keys, value \in Values :
           Insert(side, key, value)
    \/ BidBegin("a")
    \/ Increment("a")

SpecIterate == Init /\ [][NextIterate]_vars

\* the same where a call that can be made is made
SpecIterateFair == SpecIterate /\ WF_vars(NextIterate)

\* a book is filled, then two iterators are moved and compared
NextIterators ==
    \/ \E side \in Sides, key \in Keys, value \in Values :
           Insert(side, key, value)
    \/ \E v \in IteratorNames : BidBegin(v)
    \/ \E v \in IteratorNames : Increment(v)
    \/ Equal
    \/ NotEqual

SpecIterators == Init /\ [][NextIterators]_vars

\* the tick sizes a book is instantiated with
MaxTick == 2

TickSizes == 1 .. MaxTick

\* the first line of _hash_key in a book instantiated with this tick size
OffsetInTicks(tick, key) ==
    /\ Running
    /\ out' = offset_in_ticks_of(key, hashing_mid_price, tick)
    /\ ret' = "void"
    /\ last' = Call("offset_in_ticks", "NONE", key, tick)
    /\ UNCHANGED <<book, net>>

NextOffsetInTicks ==
    \E tick \in TickSizes, key \in HashKeys : OffsetInTicks(tick, key)

SpecOffsetInTicks == InitHashKey /\ [][NextOffsetInTicks]_vars

\* insert, find and erase of bids only, as the benchmark calls them
NextBidCalls ==
    \/ \E key \in Keys, value \in Values : Insert(BID, key, value)
    \/ \E key \in Keys : Find(BID, key)
    \/ \E key \in Keys : Erase(BID, key)

SpecBidCalls == Init /\ [][NextBidCalls]_vars

\* inserts and erases, on a book constructed with any anchor
NextInsertErase ==
    \/ \E side \in Sides, key \in Keys, value \in Values :
           Insert(side, key, value)
    \/ \E side \in Sides, key \in Keys : Erase(side, key)

SpecInsertErase == InitHashKey /\ [][NextInsertErase]_vars

\* the anchors rehash is called with: those of Anchors, which lie a whole
\* ring apart, and one that does not
RehashAnchors == Anchors \cup {mid_price + 3}

\* inserts and rehashes, on a newly constructed book
NextInsertRehash ==
    \/ \E side \in Sides, key \in Keys, value \in Values :
           Insert(side, key, value)
    \/ \E new_hmp \in RehashAnchors : Rehash(new_hmp)

SpecInsertRehash == Init /\ [][NextInsertRehash]_vars

\* inserts and hash_key calls, on a book constructed with any anchor
NextInsertHashKey ==
    \/ \E side \in Sides, key \in Keys, value \in Values :
           Insert(side, key, value)
    \/ \E side \in Sides, key \in Keys : HashKey(side, key)

SpecInsertHashKey == InitHashKey /\ [][NextInsertHashKey]_vars

----------------------------------------------------------------------------
(* What the book holds, read off the storage itself.                       *)

Place(side, cell, hash, tier, slot, collision_index) ==
    [side |-> side, key |-> cell[1], value |-> cell[2], hash |-> hash,
     tier |-> tier, slot |-> slot, collision_index |-> collision_index]

\* the occupied cells of one slot
PlacedIn(node, hash, tier, slot, collision_index) ==
    {Place(side, side_value(node, side), hash, tier, slot, collision_index) :
        side \in {sd \in Sides : has_value(side_value(node, sd))}}

\* every occupied cell of a bucket array with the place it is stored at:
\* the bucket (hash), the tier, the slot (collision slots count from 1, list
\* nodes from the front) and, for a list node, its collision_index field
Placed(bkts) ==
    UNION {
        PlacedIn(bkts[i].first_node, i, "first_node", 0, 0)
        \cup UNION {PlacedIn(bkts[i].nodes[j], i, "nodes", j, j) :
                       j \in 1 .. collision_buckets}
        \cup UNION {PlacedIn(bkts[i].overflow_bucket[n], i, "overflow_bucket",
                             n, bkts[i].overflow_bucket[n].collision_index) :
                       n \in 1 .. Len(bkts[i].overflow_bucket)}
        : i \in Indexes}

\* the stored (side, key, value) triples
Contents(bkts) == {<<p.side, p.key, p.value>> : p \in Placed(bkts)}

\* whether (side, key) is stored, in whatever tier
Stored(side, key) ==
    \E p \in Placed(buckets) : p.side = side /\ p.key = key

\* the address of the last call's (side, key) under the current anchor
LastAddress == hash_key_at(last.side, last.key, hashing_mid_price)

----------------------------------------------------------------------------
(* C1: round trip.  An insert of a (side, key) that is not stored returns  *)
(* true and the key is then found with the value inserted; after an erase  *)
(* that returned true the key is not found.                                *)
C1_RoundTrip ==
    /\ (last.op = "insert" /\ ret # "true") => Stored(last.side, last.key)
    /\ (last.op = "insert" /\ ret = "true") =>
           find_in(last.side, last.key, buckets, hashing_mid_price)
               = FindResult("true", last.val)
    /\ (last.op = "erase" /\ ret = "true") =>
           find_in(last.side, last.key, buckets, hashing_mid_price)
               = FindResult("false", 0)

----------------------------------------------------------------------------
(* C2: duplicate insert.  An insert of a (side, key) that is stored, in    *)
(* whatever tier, returns false and leaves the buckets, size, best_bid,    *)
(* best_offer, the mid index and the anchor unchanged.                     *)
C2_DuplicateInsert ==
    [][(last'.op = "insert" /\ Stored(last'.side, last'.key))
           => (ret' = "false" /\ UNCHANGED book)]_vars

\* a duplicate insert, carrying another value, of a key held in a list node
C2_Witness ==
    /\ last.op = "insert"
    /\ ret = "false"
    /\ \E p \in Placed(buckets) :
           /\ p.side = last.side /\ p.key = last.key
           /\ p.tier = "overflow_bucket" /\ p.value # last.val

----------------------------------------------------------------------------
(* C3: erase miss.  An erase of a (side, key) that is not stored returns   *)
(* false, raises no error and leaves size and every cell unchanged.        *)
C3_EraseMiss ==
    [][(last'.op = "erase" /\ ~Stored(last'.side, last'.key))
           => (ret' = "false" /\ UNCHANGED book)]_vars

----------------------------------------------------------------------------
(* C4: find miss never raises.  A find of a (side, key) that is not stored *)
(* returns false, and neither find nor erase raises "key mismatch".        *)
C4_FindMissNeverRaises ==
    /\ (last.op = "find" /\ ~Stored(last.side, last.key)) => ret = "false"
    /\ last.op \in {"find", "erase"} => ret # "throw_key_mismatch"

----------------------------------------------------------------------------
(* C5: size accounting.  Under insert, find and erase on a newly           *)
(* constructed book, size equals the inserts that returned true minus the  *)
(* erases that returned true.                                              *)
C5_SizeAccounting == size = net

\* an erase from the overflow list returned true and an entry is left
C5_Witness ==
    /\ last.op = "erase"
    /\ ret = "true"
    /\ tier_of(LastAddress.collision_bucket) = "overflow_bucket"
    /\ size = 1

----------------------------------------------------------------------------
(* C6: size invariant.  While no call has raised, size equals the number   *)
(* of occupied bid and ask cells over all first slots, collision slots and *)
(* overflow-list nodes.                                                    *)
C6_SizeInvariant == Running => size = Cardinality(Placed(buckets))

\* a rehash completed on a book holding a list node and another entry
C6_Witness ==
    /\ last.op = "rehash"
    /\ ret = "void"
    /\ size = 2
    /\ \E p \in Placed(buckets) : p.tier = "overflow_bucket"
    /\ \E p \in Placed(buckets) : p.tier # "overflow_bucket"

----------------------------------------------------------------------------
(* C7: rehash preservation.  A rehash to an anchor under which no stored   *)
(* key is wrap-rejected, and which raises no "massive mid move", completes *)
(* without raising the reinsert failure and leaves the stored (side, key,  *)
(* value) triples and size as they were.                                   *)
NoWrapUnder(new_hmp) ==
    \A p \in Placed(buckets) :
        ~wrap_rejected(p.side, raw_index(p.key, new_hmp))

C7_RehashPreserves ==
    [][(last'.op = "rehash" /\ NoWrapUnder(last'.key)
        /\ ret' # "throw_massive_mid_move")
           => /\ ret' = "void"
              /\ Contents(buckets') = Contents(buckets)
              /\ size' = size]_vars

----------------------------------------------------------------------------
(* C8: address invariant.  Every stored (side, key) sits in the bucket at  *)
(* the primary index computed from the key and the current anchor, in the  *)
(* first slot when its collision index is 0, else in the collision slot of *)
(* that number, else in a list node whose collision_index field equals the *)
(* recomputed collision index.                                             *)
AddressOf(p) == hash_key_at(p.side, p.key, hashing_mid_price)

C8_AddressInvariant ==
    \A p \in Placed(buckets) :
        /\ p.hash = AddressOf(p).hash
        /\ \/ p.tier = "first_node" /\ AddressOf(p).collision_bucket = 0
           \/ p.tier = "nodes" /\ AddressOf(p).collision_bucket = p.slot
           \/ /\ p.tier = "overflow_bucket"
              /\ AddressOf(p).collision_bucket = p.collision_index

\* a rehash moved the anchor and the book holds a list node and an entry of
\* a collision slot
C8_Witness ==
    /\ last.op = "rehash"
    /\ ret = "void"
    /\ hashing_mid_price # mid_price
    /\ \E p \in Placed(buckets) : p.tier = "overflow_bucket"
    /\ \E p \in Placed(buckets) : p.tier = "nodes"

----------------------------------------------------------------------------
(* C9: one value per address.  As claimed: for each (primary index,        *)
(* collision index, side), overflow indices included, at most one stored   *)
(* value has that address, and an insert whose address holds a value       *)
(* returns false.                                                          *)
AddressHeld(side, h) ==
    \E p \in Placed(buckets) : p.side = side /\ AddressOf(p) = h

C9_OneValuePerAddress ==
    /\ [](\A p, q \in Placed(buckets) :
              (p.side = q.side /\ AddressOf(p) = AddressOf(q)) => p = q)
    /\ [][(last'.op = "insert"
           /\ AddressHeld(last'.side,
                          hash_key_at(last'.side, last'.key, hashing_mid_price)))
              => ret' = "false"]_vars

(* C9 as amended: the same for the addresses of the first slot and of the  *)
(* collision slots (collision index <= collision_buckets); in an overflow  *)
(* list several keys share an address, and an insert routed to it returns  *)
(* false exactly when that (side, key) is already in the list.             *)
InSlots(h) == h.collision_bucket <= collision_buckets

C9_OneValuePerSlotAddress ==
    /\ [](\A p, q \in Placed(buckets) :
              (p.side = q.side /\ AddressOf(p) = AddressOf(q)
               /\ InSlots(AddressOf(p))) => p = q)
    /\ [][last'.op = "insert" =>
              LET h == hash_key_at(last'.side, last'.key, hashing_mid_price)
              IN  IF InSlots(h)
                  THEN AddressHeld(last'.side, h) => ret' = "false"
                  ELSE (ret' = "false") <=> Stored(last'.side, last'.key)]_vars

\* an insert into an occupied collision slot returned false while a second
\* key shares the address of a list node
C9_Witness ==
    /\ last.op = "insert"
    /\ ret = "false"
    /\ LastAddress.collision_bucket \in 1 .. collision_buckets
    /\ AddressHeld(last.side, LastAddress)

----------------------------------------------------------------------------
(* C10: tier routing.  As claimed: insert, find and erase use the first    *)
(* slot exactly when collision_index = 0, collision slot number            *)
(* collision_index - 1 exactly when 1 <= collision_index <= C - 1, and the *)
(* overflow list exactly when collision_index >= C.                        *)
ClaimedTier(cb) ==
    IF cb = 0 THEN "first_node"
    ELSE IF cb <= collision_buckets - 1 THEN "nodes"
    ELSE "overflow_bucket"

\* collision slot number collision_index - 1 of the code is slot
\* collision_index here, where slots count from 1
RoutedBy(Tier(_), p, cb) ==
    /\ p.tier = Tier(cb)
    /\ p.tier = "nodes" => p.slot - 1 = cb - 1

\* the cells of (side, key)
PlacesOf(bkts, side, key) ==
    {p \in Placed(bkts) : p.side = side /\ p.key = key}

\* an insert that returned true wrote, and a find that returned true read,
\* the cell of the tier Tier names
InsertFindRouted(Tier(_)) ==
    /\ (last.op = "insert" /\ ret = "true") =>
           /\ PlacesOf(buckets, last.side, last.key) # {}
           /\ \A p \in PlacesOf(buckets, last.side, last.key) :
                  RoutedBy(Tier, p, LastAddress.collision_bucket)
    /\ (last.op = "find" /\ ret = "true") =>
           \E p \in PlacesOf(buckets, last.side, last.key) :
               /\ RoutedBy(Tier, p, LastAddress.collision_bucket)
               /\ out = p.value

\* an erase that returned true emptied the cell of the tier Tier names
EraseRouted(Tier(_)) ==
    (last'.op = "erase" /\ ret' = "true") =>
        \E p \in PlacesOf(buckets, last'.side, last'.key) :
            /\ RoutedBy(Tier, p, AddressOf(p).collision_bucket)
            /\ Contents(buckets')
                   = Contents(buckets) \ {<<p.side, p.key, p.value>>}

C10_TierRouting ==
    []InsertFindRouted(ClaimedTier) /\ [][EraseRouted(ClaimedTier)]_vars

(* C10 as amended: the first slot exactly when collision_index = 0,        *)
(* collision slot number collision_index - 1 exactly when                  *)
(* 1 <= collision_index <= C, and the overflow list exactly when           *)
(* collision_index > C.                                                    *)
AmendedTier(cb) ==
    IF cb = 0 THEN "first_node"
    ELSE IF cb <= collision_buckets THEN "nodes"
    ELSE "overflow_bucket"

C10_TierRoutingAmended ==
    []InsertFindRouted(AmendedTier) /\ [][EraseRouted(AmendedTier)]_vars

\* an ask with collision_index = C was erased from the last collision slot
C10_Witness ==
    /\ last.op = "erase"
    /\ ret = "true"
    /\ LastAddress.collision_bucket = collision_buckets
    /\ \E p \in Placed(buckets) : p.tier = "overflow_bucket"

----------------------------------------------------------------------------
(* C11: address arithmetic.  For every side, key and anchor M whose raw    *)
(* index N/2 + (key - M)/TickSize is not wrap-rejected, hash_key raises    *)
(* nothing and yields the primary index raw mod N in [0, N) and the        *)
(* collision index raw / N when raw >= 0, |raw + 1| / N + 1 when raw < 0;  *)
(* under anchor 110 the nine listed keys get the listed addresses.         *)
ClaimedRaw(key, anchor) ==
    (fast_book_size \div 2) + ((key - anchor) \div tick_size)

ClaimedAddress(raw) ==
    <<raw % fast_book_size,
      IF raw >= 0 THEN raw \div fast_book_size
                  ELSE ((IF raw + 1 < 0 THEN 0 - (raw + 1) ELSE raw + 1)
                           \div fast_book_size) + 1>>

\* wrap-rejected as the claims word it: a bid with raw index > N, an ask
\* with raw index < 0
ClaimedWrap(side, raw) ==
    \/ (side = BID /\ raw > fast_book_size)
    \/ (side = ASK /\ raw < 0)

ClaimedExamples ==
    {<<ASK, 110, 5, 0>>, <<ASK, 114, 9, 0>>, <<ASK, 115, 0, 1>>,
     <<ASK, 124, 9, 1>>, <<ASK, 125, 0, 2>>, <<BID, 105, 0, 0>>,
     <<BID, 104, 9, 1>>, <<BID, 95, 0, 1>>, <<BID, 94, 9, 2>>}

C11_AddressArithmetic ==
    last.op = "hash_key" =>
        /\ ret \notin Throws
        /\ ~ClaimedWrap(last.side, ClaimedRaw(last.key, hashing_mid_price))
               => out = ClaimedAddress(ClaimedRaw(last.key, hashing_mid_price))
        /\ \A e \in ClaimedExamples :
               (hashing_mid_price = 110 /\ last.side = e[1] /\ last.key = e[2])
                   => out = <<e[3], e[4]>>

\* a bid more than a ring below the anchor: negative raw index -11
C11_Witness ==
    /\ last.op = "hash_key"
    /\ last.side = BID
    /\ last.key = 94
    /\ hashing_mid_price = 110
    /\ out = <<9, 2>>

----------------------------------------------------------------------------
(* C12: side-aware wrap rejection.  Under every anchor a bid with raw      *)
(* index > N and an ask with raw index < 0 get collision_index = C + 1,    *)
(* and insert, find and erase of such a key act on the overflow list of    *)
(* its primary bucket only: the first slots, the collision slots and the   *)
(* other buckets' lists are neither written nor decide the result.         *)
WrapKey(side, key) == ClaimedWrap(side, ClaimedRaw(key, hashing_mid_price))

PrimaryOf(key) == ClaimedRaw(key, hashing_mid_price) % fast_book_size

\* the first slot and the collision slots of every bucket
Slots(bkts) == [i \in Indexes |-> <<bkts[i].first_node, bkts[i].nodes>>]

\* the values the overflow list of bucket i holds for (side, key)
ListValues(bkts, i, side, key) ==
    {side_value(bkts[i].overflow_bucket[n], side)[2] :
        n \in {k \in 1 .. Len(bkts[i].overflow_bucket) :
                  holds_key(bkts[i].overflow_bucket[k], side, key)}}

OnListOnly ==
    /\ Slots(buckets') = Slots(buckets)
    /\ \A i \in Indexes \ {PrimaryOf(last'.key)} : buckets'[i] = buckets[i]
    /\ ret' \in {"true", "false"}
    /\ last'.op = "insert" =>
           /\ (ret' = "false") <=>
                  ListValues(buckets, PrimaryOf(last'.key), last'.side,
                             last'.key) # {}
           /\ (ret' = "true") =>
                  ListValues(buckets', PrimaryOf(last'.key), last'.side,
                             last'.key) = {last'.val}
    /\ last'.op = "find" =>
           IF ret' = "true"
           THEN out' \in ListValues(buckets, PrimaryOf(last'.key), last'.side,
                                    last'.key)
           ELSE ListValues(buckets, PrimaryOf(last'.key), last'.side,
                           last'.key) = {}
    /\ last'.op = "erase" =>
           /\ (ret' = "true") <=>
                  ListValues(buckets, PrimaryOf(last'.key), last'.side,
                             last'.key) # {}
           /\ ListValues(buckets', PrimaryOf(last'.key), last'.side,
                         last'.key) = {}

C12_WrapRejection ==
    /\ []((last.op \in {"insert", "find", "erase"}
           /\ WrapKey(last.side, last.key))
              => LastAddress.collision_bucket = collision_buckets + 1)
    /\ [][(last'.op \in {"insert", "find", "erase"}
           /\ WrapKey(last'.side, last'.key)) => OnListOnly]_vars

\* a bid two rings above the anchor, whose raw index 20 alone would give
\* collision slot 2, was erased from the list of bucket 0 while the first
\* slot of that bucket holds another bid
C12_Witness ==
    /\ last.op = "erase"
    /\ ret = "true"
    /\ last.side = BID
    /\ WrapKey(BID, last.key)
    /\ ClaimedRaw(last.key, hashing_mid_price) \div fast_book_size
           = collision_buckets
    /\ has_value(buckets[PrimaryOf(last.key)].first_node.bid_value)

----------------------------------------------------------------------------
(* C13: best bid.  After bid inserts on a newly constructed book, best_bid *)
(* is set and equals the greatest key among the bids whose insert returned *)
(* true (with no erase, the stored bids), whatever tier holds each.        *)
StoredKeys(side) == {p.key : p \in {q \in Placed(buckets) : q.side = side}}

Greatest(S) == CHOOSE x \in S : \A y \in S : y <= x

Least(S) == CHOOSE x \in S : \A y \in S : x <= y

C13_BestBid ==
    StoredKeys(BID) # {} => best_bid = <<Greatest(StoredKeys(BID))>>

----------------------------------------------------------------------------
(* C14: best offer.  A successful ask insert with key < best_offer, an     *)
(* unset best_offer counting as +infinity, sets best_offer to that key; so *)
(* after ask inserts on a newly constructed book best_offer is set and     *)
(* equals the least ask key inserted.                                      *)
C14_BestOffer ==
    /\ [](StoredKeys(ASK) # {} => best_offer = <<Least(StoredKeys(ASK))>>)
    /\ [][(last'.op = "insert" /\ last'.side = ASK /\ ret' = "true"
           /\ (best_offer = <<>> \/ last'.key < best_offer[1]))
              => best_offer' = <<last'.key>>]_vars

----------------------------------------------------------------------------
(* C15: massive mid move.  When an insert that stores its entry changes    *)
(* the best bid or the best offer and both are then set, the insert raises *)
(* "massive mid move" exactly when (best_bid + best_offer) / 2, addressed  *)
(* against the current anchor, has a nonzero collision index; otherwise    *)
(* it returns true and current_mid_index becomes the primary index of that *)
(* mid.  The bests are the ones C13 and C14 define: on a book that has     *)
(* seen inserts only, the greatest stored bid and the least stored ask.    *)
ClaimedBests(bkts) ==
    LET bids == {p.key : p \in {q \in Placed(bkts) : q.side = BID}}
        asks == {p.key : p \in {q \in Placed(bkts) : q.side = ASK}}
    IN  [bid |-> IF bids = {} THEN <<>> ELSE <<Greatest(bids)>>,
         offer |-> IF asks = {} THEN <<>> ELSE <<Least(asks)>>]

ClaimedMid(b) == (b.bid[1] + b.offer[1]) \div 2

C15_MassiveMidMove ==
    [][(/\ last'.op = "insert"
        /\ Contents(buckets') # Contents(buckets)
        /\ ClaimedBests(buckets') # ClaimedBests(buckets)
        /\ ClaimedBests(buckets').bid # <<>>
        /\ ClaimedBests(buckets').offer # <<>>)
           => LET h == hash_key_at(last'.side,
                                   ClaimedMid(ClaimedBests(buckets')),
                                   hashing_mid_price)
              IN  IF h.collision_bucket > 0
                  THEN ret' = "throw_massive_mid_move"
                  ELSE ret' = "true" /\ current_mid_index' = h.hash]_vars

----------------------------------------------------------------------------
(* C16: erase does not touch the BBO.  Every erase call, whatever it       *)
(* returns or raises and whatever tier it acts on, leaves best_bid,        *)
(* best_offer, current_mid_index and hashing_mid_price unchanged, also     *)
(* when the key erased is the current best_bid or best_offer.              *)
C16_EraseLeavesBBO ==
    [][last'.op = "erase" =>
           UNCHANGED <<best_bid, best_offer, current_mid_index,
                       hashing_mid_price>>]_vars

\* the bid that is the best bid was erased, best_bid still names it
C16_Witness ==
    /\ last.op = "erase"
    /\ ret = "true"
    /\ last.side = BID
    /\ best_bid = <<last.key>>
    /\ ~Stored(BID, last.key)

----------------------------------------------------------------------------
(* C17: empty book.  After construction with anchor A, after clear() and   *)
(* after clear(A), size is 0, best_bid and best_offer are unset, every     *)
(* overflow list is empty and find returns false for every (side, key);    *)
(* clear() leaves hashing_mid_price unchanged, clear(A) sets it to A, and  *)
(* an insert that follows is stored at the address computed against A.    *)
EmptyBook ==
    /\ size = 0
    /\ best_bid = <<>>
    /\ best_offer = <<>>
    /\ \A i \in Indexes : Len(buckets[i].overflow_bucket) = 0
    /\ \A side \in Sides, key \in HashKeys :
           find_in(side, key, buckets, hashing_mid_price)
               = FindResult("false", 0)

\* p is where the claims' arithmetic puts (p.side, p.key) under anchor
StoredAgainst(p, anchor) ==
    LET raw == ClaimedRaw(p.key, anchor)
        ci == IF ClaimedWrap(p.side, raw) THEN collision_buckets + 1
              ELSE ClaimedAddress(raw)[2]
    IN  /\ p.hash = raw % fast_book_size
        /\ \/ p.tier = "first_node" /\ ci = 0
           \/ p.tier = "nodes" /\ ci = p.slot
           \/ p.tier = "overflow_bucket" /\ ci = p.collision_index

C17_EmptyBook ==
    /\ [](last.op \in {"construct", "clear", "clear_to"} => EmptyBook)
    /\ [](last.op \in {"construct", "clear_to"}
              => hashing_mid_price = last.key)
    /\ [][last'.op = "clear" => hashing_mid_price' = hashing_mid_price]_vars
    /\ [][(last.op \in {"construct", "clear", "clear_to"}
           /\ last'.op = "insert")
              => /\ ret' = "true"
                 /\ \E p \in Placed(buckets') :
                        /\ Placed(buckets') = {p}
                        /\ p.side = last'.side /\ p.key = last'.key
                        /\ p.value = last'.val
                        /\ StoredAgainst(p, last.key)]_vars

\* clear(A) moved the anchor on a book that had held a bid
C17_Witness ==
    /\ last.op = "clear_to"
    /\ hashing_mid_price # mid_price
    /\ current_mid_index # fast_book_size \div 2
    /\ EmptyBook

----------------------------------------------------------------------------
(* C18: sides are independent.  For any key, in whatever tier, a bid and   *)
(* an ask at the same key can both be inserted and are found with their    *)
(* own values, and erasing one returns true and leaves the other found     *)
(* with its value.  Checked as: an insert, find or erase of one side       *)
(* returns what it returns on the book with the other side's entries       *)
(* taken out, and leaves the other side's entries as they were.            *)
OtherSide(side) == IF side = BID THEN ASK ELSE BID

\* the cells of one side of a slot, the other side's cell left out
OneSideOf(node, side) ==
    [bid_value |-> IF side = BID THEN node.bid_value ELSE Empty,
     ask_value |-> IF side = ASK THEN node.ask_value ELSE Empty]

\* the book with the entries of the other side taken out
OneSide(bkts, side) ==
    [i \in Indexes |->
        [first_node |-> OneSideOf(bkts[i].first_node, side),
         nodes |-> [j \in 1 .. collision_buckets |->
                       OneSideOf(bkts[i].nodes[j], side)],
         overflow_bucket |->
             SelectSeq(bkts[i].overflow_bucket,
                       LAMBDA node : side = BID <=> node.bid_value # Empty)]]

\* the value stored for (side, key)
ValueOf(bkts, side, key) ==
    (CHOOSE p \in Placed(bkts) : p.side = side /\ p.key = key).value

SameAsAlone ==
    /\ last'.op = "insert" =>
           LET r == insert_into(last'.side, last'.key, last'.val,
                                OneSide(buckets, last'.side),
                                hashing_mid_price,
                                Scalars(size, best_bid, best_offer,
                                        current_mid_index, hashing_mid_price))
           IN  /\ ret' = r.ret
               /\ OneSide(buckets', last'.side) = r.buckets
    /\ last'.op = "find" =>
           LET r == find_in(last'.side, last'.key,
                            OneSide(buckets, last'.side), hashing_mid_price)
           IN  /\ ret' = r.ret
               /\ ret' = "true" => out' = r.out
    /\ last'.op = "erase" =>
           LET r == erase_in(last'.side, last'.key,
                             OneSide(buckets, last'.side),
                             hashing_mid_price, size)
           IN  /\ ret' = r.ret
               /\ OneSide(buckets', last'.side) = r.buckets

BothSidesAtKey ==
    LET placed == Placed(buckets)
        held(side) == \E p \in placed : p.side = side /\ p.key = last'.key
    IN  /\ (last'.op = "insert"
            /\ \A p \in placed : p.side # last'.side)
               => ret' = "true"
        /\ (last'.op = "insert" /\ ret' = "true"
            /\ held(OtherSide(last'.side)))
               => /\ find_in(last'.side, last'.key, buckets',
                             hashing_mid_price)
                         = FindResult("true", last'.val)
                  /\ find_in(OtherSide(last'.side), last'.key, buckets',
                             hashing_mid_price)
                         = FindResult("true",
                                      ValueOf(buckets, OtherSide(last'.side),
                                              last'.key))
        /\ (last'.op = "erase" /\ held(last'.side)
            /\ held(OtherSide(last'.side)))
               => /\ ret' = "true"
                  /\ find_in(last'.side, last'.key, buckets',
                             hashing_mid_price)
                         = FindResult("false", 0)
                  /\ find_in(OtherSide(last'.side), last'.key, buckets',
                             hashing_mid_price)
                         = FindResult("true",
                                      ValueOf(buckets, OtherSide(last'.side),
                                              last'.key))

C18_SidesIndependent ==
    [][last'.op \in {"insert", "find", "erase"} =>
           /\ \/ buckets' = buckets
              \/ OneSide(buckets', OtherSide(last'.side))
                     = OneSide(buckets, OtherSide(last'.side))
           /\ SameAsAlone
           /\ BothSidesAtKey]_vars

\* the second side of a key was inserted where both sides go to the
\* overflow list of one bucket, with another value than the first side's
C18_Witness ==
    /\ last.op = "insert"
    /\ ret = "true"
    /\ \E p, q \in Placed(buckets) :
           /\ p.side = last.side /\ p.key = last.key
           /\ q.side = OtherSide(last.side) /\ q.key = last.key
           /\ p.tier = "overflow_bucket" /\ q.tier = "overflow_bucket"
           /\ p.hash = q.hash
           /\ p.value # q.value

----------------------------------------------------------------------------
(* C19: no cross-key collision on one side.  Under any anchor, two         *)
(* distinct keys of the same side never get the same (primary index,       *)
(* collision index) with collision index <= C: no other key shares the     *)
(* first-slot or collision-slot address hash_key gives a key.              *)
C19_NoCrossKeyCollision ==
    (last.op = "hash_key" /\ out[2] <= collision_buckets) =>
        \A key \in HashKeys \ {last.key} :
            LET h == hash_key_at(last.side, key, hashing_mid_price)
            IN  <<h.hash, h.collision_bucket>> # out

----------------------------------------------------------------------------
(* C20: overflow node sharing.  When a bid and an ask with the same key    *)
(* are both in the overflow list of one bucket, one node carries both      *)
(* cells: no list holds the bid of a key in one node and the ask of that   *)
(* key in another.                                                         *)
C20_OverflowNodeSharing ==
    \A i \in Indexes :
        \A n1, n2 \in 1 .. Len(buckets[i].overflow_bucket) :
            (/\ has_value(buckets[i].overflow_bucket[n1].bid_value)
             /\ has_value(buckets[i].overflow_bucket[n2].ask_value)
             /\ buckets[i].overflow_bucket[n1].bid_value[1]
                    = buckets[i].overflow_bucket[n2].ask_value[1])
                => n1 = n2

----------------------------------------------------------------------------
(* C21: no empty overflow nodes.  In every reachable state every node of   *)
(* every overflow list has its bid cell or its ask cell occupied; an erase *)
(* that empties the last occupied cell of a node unlinks that node and     *)
(* leaves every other node of the list, in its order, as it was.           *)
NodeOccupied(node) == node.bid_value # Empty \/ node.ask_value # Empty

\* the positions of the nodes of a list whose only occupied cell is the
\* cell of this side, holding this key
OnlyCellAt(list, side, key) ==
    {n \in 1 .. Len(list) :
        /\ (IF side = BID THEN list[n].bid_value ELSE list[n].ask_value)
               # Empty
        /\ (IF side = BID THEN list[n].bid_value ELSE list[n].ask_value)[1]
               = key
        /\ (IF side = BID THEN list[n].ask_value ELSE list[n].bid_value)
               = Empty}

WithoutNode(list, n) ==
    [k \in 1 .. (Len(list) - 1) |-> IF k < n THEN list[k] ELSE list[k + 1]]

C21_NoEmptyOverflowNodes ==
    /\ [](\A i \in Indexes :
              \A n \in 1 .. Len(buckets[i].overflow_bucket) :
                  NodeOccupied(buckets[i].overflow_bucket[n]))
    /\ [][(last'.op = "erase" /\ ret' = "true"
           /\ OnlyCellAt(buckets[PrimaryOf(last'.key)].overflow_bucket,
                         last'.side, last'.key) # {})
              => \E n \in OnlyCellAt(
                              buckets[PrimaryOf(last'.key)].overflow_bucket,
                              last'.side, last'.key) :
                     buckets' =
                         [buckets EXCEPT
                             ![PrimaryOf(last'.key)].overflow_bucket =
                                 WithoutNode(@, n)]]_vars

\* one of the two nodes of a list was erased: the other node is left
C21_Witness ==
    /\ last.op = "erase"
    /\ ret = "true"
    /\ tier_of(LastAddress.collision_bucket) = "overflow_bucket"
    /\ Len(buckets[LastAddress.hash].overflow_bucket) = 1
    /\ size = 1

----------------------------------------------------------------------------
(* C22: overflow collision indices.  In every reachable state every node   *)
(* of every overflow list has a collision_index field > C, and every key   *)
(* stored in an overflow list has, under the current anchor, a collision   *)
(* index > C (C + 1 when wrap-rejected): no key with collision index <= C  *)
(* is stored in a list.                                                    *)
ClaimedIndex(side, key) ==
    IF WrapKey(side, key) THEN collision_buckets + 1
    ELSE ClaimedAddress(ClaimedRaw(key, hashing_mid_price))[2]

C22_OverflowIndexAboveSlots ==
    \A p \in Placed(buckets) :
        p.tier = "overflow_bucket" =>
            /\ p.collision_index > collision_buckets
            /\ ClaimedIndex(p.side, p.key) > collision_buckets

\* after a rehash a list holds a key that is not wrap-rejected next to a
\* collision slot of its bucket that is occupied
C22_Witness ==
    /\ last.op = "rehash"
    /\ ret = "void"
    /\ \E p \in Placed(buckets) :
           /\ p.tier = "overflow_bucket"
           /\ ~WrapKey(p.side, p.key)
           /\ \E q \in Placed(buckets) : q.tier = "nodes" /\ q.hash = p.hash

----------------------------------------------------------------------------
(* C23: the flag of hash_key.  hash_key returns true exactly when the key  *)
(* is not wrap-rejected and its collision index is < C; for a key that is  *)
(* stored, the flag is false exactly when the key is stored in an overflow *)
(* list.                                                                   *)
FlagAsClaimed ==
    (ret = "true") <=>
        /\ ~WrapKey(last.side, last.key)
        /\ ClaimedAddress(ClaimedRaw(last.key, hashing_mid_price))[2]
               < collision_buckets

\* the places that hold the (side, key) of the last call
LastPlaces ==
    {p \in Placed(buckets) : p.side = last.side /\ p.key = last.key}

C23_FlagFalseIsOverflow ==
    last.op = "hash_key" =>
        /\ ret \in {"true", "false"}
        /\ FlagAsClaimed
        /\ \A p \in LastPlaces :
               (ret = "false") <=> p.tier = "overflow_bucket"

(* C23 amended: the flag is false exactly for the keys that insert stores  *)
(* in the overflow list or in the last collision slot (collision index C). *)
C23_FlagFalseFromLastSlot ==
    last.op = "hash_key" =>
        /\ ret \in {"true", "false"}
        /\ FlagAsClaimed
        /\ \A p \in LastPlaces :
               (ret = "false") <=>
                   \/ p.tier = "overflow_bucket"
                   \/ p.tier = "nodes" /\ p.slot = collision_buckets

\* hash_key returned false for a key held in the last collision slot
C23_Witness ==
    /\ last.op = "hash_key"
    /\ ret = "false"
    /\ \E p \in LastPlaces : p.tier = "nodes" /\ p.slot = collision_buckets

----------------------------------------------------------------------------
(* C24: BBO update by tier.  An insert that returns true and stores its    *)
(* key in the first slot or a collision slot applies the monotonic update  *)
(* (a bid above best_bid, or with best_bid unset, becomes best_bid; an ask *)
(* below best_offer, or with best_offer unset, becomes best_offer; nothing *)
(* else changes a best); an insert that returns true and stores its key in *)
(* an overflow list leaves best_bid, best_offer and current_mid_index.     *)
InsertedTiers ==
    {p.tier : p \in {q \in Placed(buckets') :
                        q.side = last'.side /\ q.key = last'.key}}

BidMonotonicUpdate ==
    /\ best_bid' = IF best_bid = <<>> \/ last'.key > best_bid[1]
                   THEN <<last'.key>> ELSE best_bid
    /\ best_offer' = best_offer

AskMonotonicUpdate ==
    /\ best_offer' = IF best_offer = <<>> \/ last'.key < best_offer[1]
                     THEN <<last'.key>> ELSE best_offer
    /\ best_bid' = best_bid

SlotInsert ==
    /\ last'.op = "insert"
    /\ ret' = "true"
    /\ InsertedTiers \subseteq {"first_node", "nodes"}

OverflowInsert ==
    /\ last'.op = "insert"
    /\ ret' = "true"
    /\ InsertedTiers = {"overflow_bucket"}

C24_BBOUpdateByTier ==
    /\ [][(SlotInsert /\ last'.side = BID) => BidMonotonicUpdate]_vars
    /\ [][(SlotInsert /\ last'.side = ASK) => AskMonotonicUpdate]_vars
    /\ [][OverflowInsert =>
              UNCHANGED <<best_bid, best_offer, current_mid_index>>]_vars

----------------------------------------------------------------------------
----------------------------------------------------------------------------
(* C26: the mid index follows the anchor.  In every reachable state with   *)
(* best_bid set and best_offer unset, current_mid_index is the primary     *)
(* index of best_bid under the current hashing_mid_price, also after a     *)
(* rehash has changed the anchor.                                          *)
C26_MidIndexFollowsAnchor ==
    (best_bid # <<>> /\ best_offer = <<>>)
        => current_mid_index = PrimaryOf(best_bid[1])

----------------------------------------------------------------------------
(* C27: a failed rehash is atomic.  A rehash that raises the reinsert      *)
(* failure leaves size, hashing_mid_price and the set of stored (side,     *)
(* key, value) triples as they were before the call.                       *)
C27_FailedRehashAtomic ==
    [][(last'.op = "rehash" /\ ret' = "throw_reinsert_failed")
          => /\ size' = size
             /\ hashing_mid_price' = hashing_mid_price
             /\ Contents(buckets') = Contents(buckets)]_vars

\* the part of C27 that the code keeps: the anchor and the stored triples
FailedRehashKeepsContents ==
    [][(last'.op = "rehash" /\ ret' = "throw_reinsert_failed")
          => /\ hashing_mid_price' = hashing_mid_price
             /\ buckets' = buckets]_vars

----------------------------------------------------------------------------
(* C28: insert and erase touch one entry only.  Every insert(side, key, v) *)
(* and erase(side, key) step, whatever it returns or raises, leaves every  *)
(* stored entry of another (side, key) stored with the same value, found   *)
(* as before, and leaves hashing_mid_price unchanged.                      *)
OtherEntries(bkts, side, key) ==
    {t \in Contents(bkts) : ~(t[1] = side /\ t[2] = key)}

C28_OneEntryOnly ==
    [][last'.op \in {"insert", "erase"} =>
          LET before == OtherEntries(buckets, last'.side, last'.key)
          IN  /\ hashing_mid_price' = hashing_mid_price
              /\ before = OtherEntries(buckets', last'.side, last'.key)
              /\ buckets' # buckets =>
                     \A t \in before :
                         find_in(t[1], t[2], buckets', hashing_mid_price')
                             = find_in(t[1], t[2], buckets,
                                       hashing_mid_price)]_vars

\* an erase returned true for a key of an overflow list whose other node
\* is still in that list
C28_Witness ==
    /\ last.op = "erase"
    /\ ret = "true"
    /\ \E p \in Placed(buckets) :
           /\ p.tier = "overflow_bucket"
           /\ p.hash = PrimaryOf(last.key)
           /\ ClaimedIndex(last.side, last.key) > collision_buckets

----------------------------------------------------------------------------
(* C29: find is read-only.  A find that returns true or false leaves the   *)
(* cells, size, best_bid, best_offer, current_mid_index and                *)
(* hashing_mid_price unchanged, and a find that returns false leaves the   *)
(* caller's out value as it was.                                           *)
C29_FindReadOnly ==
    [][(last'.op = "find" /\ ret' \in {"true", "false"})
          => /\ buckets' = buckets
             /\ size' = size
             /\ best_bid' = best_bid
             /\ best_offer' = best_offer
             /\ current_mid_index' = current_mid_index
             /\ hashing_mid_price' = hashing_mid_price
             /\ ret' = "false" => out' = out]_vars

\* a find returned false for a key of an overflow list and the caller's
\* variable still holds the value an earlier find put there
C29_Witness ==
    /\ last.op = "find"
    /\ ret = "false"
    /\ out \in Values
    /\ size > 0
    /\ ClaimedIndex(last.side, last.key) > collision_buckets

----------------------------------------------------------------------------
(* C30: map equivalence.  Along any sequence of insert, find and erase     *)
(* calls on the bid side, with the anchor fixed, each call returns what    *)
(* the same call returns on a reference map from key to value (insert adds *)
(* the key if absent, find looks it up, erase removes it if present) and   *)
(* size equals the size of the map after every call.  The map is read off  *)
(* the bids the book stores: as long as every call so far agreed with the  *)
(* map, the two hold the same pairs.                                       *)
MapOf(bkts) ==
    {<<p.key, p.value>> : p \in {q \in Placed(bkts) : q.side = BID}}

MapKeys(map) == {e[1] : e \in map}

MapInsert(map, key, value) ==
    IF key \in MapKeys(map) THEN map ELSE map \cup {<<key, value>>}

MapErase(map, key) == {e \in map : e[1] # key}

MapStep(map) ==
    /\ last'.op = "insert" =>
           /\ ret' = IF last'.key \in MapKeys(map) THEN "false" ELSE "true"
           /\ MapOf(buckets') = MapInsert(map, last'.key, last'.val)
    /\ last'.op = "find" =>
           /\ ret' = IF last'.key \in MapKeys(map) THEN "true" ELSE "false"
           /\ ret' = "true" => <<last'.key, out'>> \in map
           /\ MapOf(buckets') = map
    /\ last'.op = "erase" =>
           /\ ret' = IF last'.key \in MapKeys(map) THEN "true" ELSE "false"
           /\ MapOf(buckets') = MapErase(map, last'.key)
    /\ size' = Cardinality(MapOf(buckets'))

C30_MapEquivalence ==
    [][last'.op \in {"insert", "find", "erase"} => MapStep(MapOf(buckets))]_vars

----------------------------------------------------------------------------
(* C31: signed tick offset with unsigned keys.  With Key an unsigned       *)
(* fixed-width integer and any tick size >= 1, a key below the anchor M    *)
(* gets the offset -((M - key) / TickSize), so its raw index is            *)
(* N/2 - (M - key) / TickSize, whatever key - M wraps to before the        *)
(* division.                                                               *)
C31_SignedTickOffset ==
    (last.op = "offset_in_ticks" /\ last.key < hashing_mid_price) =>
        /\ out = 0 - ((hashing_mid_price - last.key) \div last.val)
        /\ (fast_book_size \div 2) + out
               = (fast_book_size \div 2)
                     - ((hashing_mid_price - last.key) \div last.val)

\* the same with the tick size of the tests and the benchmark only
SignedOffsetAtTickOne ==
    (last.op = "offset_in_ticks" /\ last.key < hashing_mid_price
     /\ last.val = 1)
        => out = 0 - (hashing_mid_price - last.key)

----------------------------------------------------------------------------
(* C32: iteration terminates.                                              *)

\* the loop test of Tests.hpp, it != order_book.bid_end(), has become false
AtBidEnd == ~iterator_ne(Iterators.a, bid_End)

\* C32: for any book, an iterator obtained from bid_begin() and incremented
\* again and again becomes equal to bid_end() after finitely many steps:
\* whenever the caller goes on incrementing for ever, the loop test has
\* become false
C32_IterationTerminates == []<>(last.op # "increment" \/ AtBidEnd)

\* without a best bid bid_begin() is bid_end() and the iteration is over
\* before it starts
EmptyIterationEnds == (last.op = "bid_begin" /\ ~has_value(best_bid)) => AtBidEnd

\* an iterator into the book never equals bid_end()
NeverAtBidEnd == (last.op \in IteratorOps /\ Iterators.a.book = "this") => ~AtBidEnd

----------------------------------------------------------------------------
(* C33: the iterator stops only on its own side.                           *)

\* iterator a has come to rest: bid_begin() or ++ has returned it and it is
\* not equal to bid_end()
BidIteratorRests ==
    /\ last.op \in {"bid_begin", "increment"}
    /\ ret = "void"
    /\ iterator_ne(Iterators.a, bid_End)

\* the bid cell at the position of iterator a
RestingBidCell == get_value_type(Iterators.a, buckets).bid_value

\* the ask cell at the position of iterator a
RestingAskCell == get_value_type(Iterators.a, buckets).ask_value

\* C33: every position at which a bid iterator comes to rest (after
\* bid_begin() or after ++, and not equal to bid_end()) has its bid cell
\* occupied; positions holding only an ask are skipped
C33_RestsOnOwnSide == BidIteratorRests => has_value(RestingBidCell)

\* what the code ensures: some cell of the position is occupied
RestsOnAPrice ==
    BidIteratorRests => (has_value(RestingBidCell) \/ has_value(RestingAskCell))

----------------------------------------------------------------------------
(* C34: bid iteration order in the fast ring.                              *)

\* the keys of the stored bids
StoredBids == {p.key : p \in {q \in Placed(buckets) : q.side = BID}}

\* the book of the iterator test: only first slots are populated, and every
\* populated first slot holds a bid
FastRingBidBook ==
    /\ \A p \in Placed(buckets) : p.tier = "first_node"
    /\ \A i \in Indexes : has_value(buckets[i].first_node.ask_value) =>
                              has_value(buckets[i].first_node.bid_value)

Highest(keys) == CHOOSE k \in keys : \A j \in keys : j <= k

\* iterator it is not equal to bid_end() and points at the bid with this key
VisitsBid(it, key) ==
    /\ iterator_ne(it, bid_End)
    /\ has_value(get_value_type(it, buckets).bid_value)
    /\ get_value_type(it, buckets).bid_value[1] = key

\* the walk is at its end for the bids given when none is left, and at the
\* highest of them otherwise
VisitsHighestOrEnds(it, keys) ==
    IF keys = {} THEN ~iterator_ne(it, bid_End)
    ELSE VisitsBid(it, Highest(keys))

\* C34: when only first slots are populated, iterating from bid_begin() to
\* bid_end() visits every stored bid exactly once in strictly descending
\* price order starting at best_bid: bid_begin() returns the iterator at the
\* highest stored bid, which is best_bid, and ++ moves an iterator from a
\* bid to the highest stored bid below it, or to bid_end() when there is
\* none
C34_BidIterationOrder ==
    [][FastRingBidBook =>
        /\ last'.op = "bid_begin" =>
              /\ ret' = "void"
              /\ VisitsHighestOrEnds(Iterators'.a, StoredBids)
              /\ StoredBids # {} => best_bid = <<Highest(StoredBids)>>
        /\ (last'.op = "increment" /\ BidIteratorRests
                /\ has_value(RestingBidCell)) =>
              /\ ret' = "void"
              /\ VisitsHighestOrEnds(Iterators'.a,
                     {k \in StoredBids : k < RestingBidCell[1]})]_vars

\* the part the code keeps: bid_begin() starts at the highest stored bid,
\* and ++ from a bid that is not the lowest moves to the next lower one
BidOrderUntilLowest ==
    [][FastRingBidBook =>
        /\ last'.op = "bid_begin" =>
              /\ ret' = "void"
              /\ VisitsHighestOrEnds(Iterators'.a, StoredBids)
              /\ StoredBids # {} => best_bid = <<Highest(StoredBids)>>
        /\ (last'.op = "increment" /\ BidIteratorRests
                /\ has_value(RestingBidCell)
                /\ {k \in StoredBids : k < RestingBidCell[1]} # {}) =>
              /\ ret' = "void"
              /\ VisitsHighestOrEnds(Iterators'.a,
                     {k \in StoredBids : k < RestingBidCell[1]})]_vars

----------------------------------------------------------------------------
(* C35: iterator comparison is consistent.                                 *)

SamePosition(lhs, rhs) ==
    lhs.index = rhs.index /\ lhs.collision_bucket = rhs.collision_bucket

\* C35: for two iterators a and b over the same book, a == b is the negation
\* of a != b, and two non-end iterators compare equal only if they have the
\* same primary index and collision index
C35_ComparisonConsistent ==
    /\ last.op = "operator==" =>
          (ret = "true") = ~iterator_ne(out.a, out.b)
    /\ last.op = "operator!=" =>
          (ret = "true") = ~iterator_eq(out.a, out.b)
    /\ (last.op = "operator==" /\ ret = "true"
            /\ ~out.a.isEnd /\ ~out.b.isEnd) => SamePosition(out.a, out.b)

\* the two operators agree unless both iterators point into the book at
\* different positions
ConsistentUnlessApart ==
    (last.op \in {"operator==", "operator!="}
        /\ (out.a.isEnd \/ out.b.isEnd \/ SamePosition(out.a, out.b))) =>
    iterator_eq(out.a, out.b) = ~iterator_ne(out.a, out.b)

====
